---- MODULE Spec2Model ----
(***************************************************************************)
(* Window-and-popover lifecycle engine of Fluopanel (TypeScript side).     *)
(*                                                                         *)
(* Three subsystems are modelled, each under its own specification:        *)
(*   SpecPopover  - createPopoverController / usePopover against the       *)
(*                  native popover commands and the popover-closed event;  *)
(*   SpecRegistry - the window creation registry called in any order;      *)
(*   SpecWindows  - one page load of the shared bundle: role detection,    *)
(*                  <Window> components, the window creation registry and *)
(*                  useCoordinator, against the native window commands.    *)
(* The native (Rust) command handlers are not part of the TypeScript       *)
(* sources; they are modelled from the specification's command table.      *)
(*                                                                         *)
(* An action is one JavaScript turn: the synchronous code from one await   *)
(* to the next, together with the native effect of the request it issues.  *)
(***************************************************************************)
EXTENDS Integers, Sequences, FiniteSets, TLC

\* ------------------------------------------------------------------ bounds
MaxCalls == 2   \* calls issued in one behaviour of SpecPopover
MaxInbox == 1   \* popover-closed events for one id in flight towards one client
MaxRegistryOps == 4      \* registry calls in one behaviour of SpecRegistry
MaxTopologyChanges == 1  \* monitor-changed events in one behaviour of SpecWindows
MaxStoreCalls == 4       \* subscribe / unsubscribe calls in one behaviour of SpecStore
MaxHoverCalls == 5       \* calls on the hover state manager in one behaviour of SpecHover
MaxMonitorChanges == 1   \* monitor-changed events in one behaviour of SpecGeometry
MaxPlacements == 1       \* open requests in one behaviour of SpecPlacement
MaxResizes == 2          \* content size changes in one behaviour of SpecAutoSize

\* --------------------------------------------------------------- universes
\* Popover ids are strings, modelled as sequences of characters so that the
\* prefix test of the exclusive group is computed: "g-i", "g-p" and "gx".
Ids == { <<"g", "-", "i">>, <<"g", "-", "p">>, <<"g", "x">> }
None == <<>>
Clients == {1, 2}
Procs == {1, 2}

\* The `exclusive` argument: boolean | string.
ExclFalse == [kind |-> "bool", b |-> FALSE, s |-> <<>>]
ExclTrue  == [kind |-> "bool", b |-> TRUE,  s |-> <<>>]
ExclGroup == [kind |-> "str",  b |-> FALSE, s |-> <<"g">>]
ExclusiveValues == {ExclFalse, ExclTrue, ExclGroup}

\* Inline windows declared by the application, and the callers of waitForAllWindows.
WinIds == {"bar", "side"}
Waiters == {1, 2}
Coordinator == 1

\* URLSearchParams.get(name) is null when the parameter is absent.
Null == "<null>"

\* options.leaveDelay of the hover state manager, in ticks
LeaveDelay == 2

\* An absent number is the empty tuple; a present one is <<n>>.
Undefined == <<>>

NoCall == [op |-> "none", id |-> None, exclusive |-> ExclFalse, onClose |-> FALSE]

VARIABLES
  \* ---- popover subsystem
  kind,                  \* client -> "usePopover" | "controller"
  upExclusive,           \* usePopover options.exclusive of the instance
  clientOf,              \* proc -> the client whose code it runs
  nOpen,                 \* native: ids of the open popover panels
  inbox,                 \* client -> id -> popover-closed events not yet delivered
  pc,                    \* proc -> position in the call it runs
  call,                  \* proc -> the call it runs
  toClose,               \* proc -> popoversToClose not yet closed
  reply,                 \* proc -> PopoverInfo.closed of the last open_popover
  closeCallbacks,        \* client -> keys of the closeCallbacks map
  ctlListeners,          \* client -> native listeners of its controller
  closeUnlisten,         \* client -> closeUnlisten is set
  upListener,            \* client -> native listener of usePopover
  popoverClosedUnlisten, \* client -> popoverClosedUnlisten is set
  openPopoverId,         \* client -> openPopoverId.value
  callsLeft,
  \* ---- popover subsystem, history
  owedClose,             \* proc -> other ids open at the start of an
                         \*         exclusive=true call and not yet closed by it
  closedByCall,          \* proc -> ids whose close_popover the call has awaited
  selfClosed,            \* proc -> times the call closed a panel of its own id
  created,               \* proc -> the call created a panel
  regAtOpen,             \* id -> client that opened the panel with onClose, or 0
  balance,               \* client -> id -> leaves owed to onClose minus invocations
  \* ---- window creation registry
  pendingWindows,        \* pendingWindows.value
  completedWindows,      \* completedWindows.value
  resolvers,             \* the resolvers array: callers whose promise is unresolved
  wstate,                \* caller -> "idle" | "waiting" | "resolved"
  registryOpsLeft,
  \* ---- one page load: role, <Window> components, useCoordinator
  url,                   \* window.location.search: window, float, popover
  autoHide,              \* useCoordinator options.autoHide
  wpc,                   \* window id -> position of its <Window> component
  unmounted,             \* window id -> onUnmounted has run
  listening,             \* window id -> native monitor-changed listeners
  unlisten,              \* window id -> the component's `unlisten` is set
  cpc,                   \* position of useCoordinator's onMounted
  nwin,                  \* native: window id -> "absent" | "hidden" | "visible"
  nrect,                 \* native: window id -> "none" | "target" | "stale"
  mainVisible,           \* native: the window labelled 'main' is visible
  topologyLeft,
  \* ---- page load, history
  createdHere,           \* window id -> this load's create_inline_window succeeded
  dupRectBefore,         \* window id -> rectangle when its create found the id live
  missed,                \* window id -> a monitor-changed fired for the live window
                         \*              and no reposition request was issued
  coordRequested,        \* this load issued a coordinator request
  \* ---- popover child: <Popover> component and useAutoSize
  search,                \* window.location.search of the child: popover, max_height
  propsId,               \* props.id of the <Popover> component
  element,               \* elementRef.value: its measures, or Undefined
  observer,              \* the ResizeObserver exists
  apc,                   \* position of the component: "setup" | "tick" | "mounted" | "unmounted"
  width,                 \* width.value
  height,                \* height.value
  sent,                  \* the set_window_size requests issued, in order
  applied,               \* native: << size >> of the last request that succeeded
  logged,                \* console.error calls of updateSize
  resizesLeft,
  \* ---- window geometry: useFluopanelInit
  position,              \* the position descriptor of the window
  monitors,              \* monitors.value
  geometry,              \* the last set_window_geometry request, or Undefined
  chosen,                \* the monitor of the last applyWindowGeometry, Undefined
                         \* when it returned without one
  warned,                \* console.warn calls of applyWindowGeometry
  gpc,                   \* "setup" | "mounted"
  monitorChangesLeft,
  \* ---- popover placement
  openOptions,           \* the options of the last openPopover call, or Undefined
  params,                \* the arguments of the last open_popover, or Undefined
  panel,                 \* native: rectangle and max_height of the panel, or Undefined
  minMaxHeight,          \* native: the positive minimum of max_height
  placementsLeft,
  \* ---- hover state manager
  isOverTrigger,
  isOverPopup,
  closeTimer,            \* closeTimer is not null
  timerLeft,             \* the pending native timer: << ticks left >>, or Undefined
  isDestroyed,
  closes,                \* invocations of options.onClose
  hoverCallsLeft,
  \* ---- hover state manager, history
  quiet,                 \* ticks for which the mouse has been over neither area
  pendingAtDestroy,      \* destroy() found a pending timer
  afterDestroy,          \* the calls made after destroy()
  \* ---- shared store / battery provider
  storeKind,             \* "sharedStore" | "battery"
  subscribers,           \* the subscribers set
  unlistenFn,            \* << listener >> when set, Undefined when null
  pendingListens,        \* listeners whose listen() has not resolved yet
  nativeListeners,       \* native: the registered listeners of the event
  nextListener,          \* the next listener identity
  unsubscribers,         \* callbacks whose unsubscribe function was returned
  storeCallsLeft,
  \* ---- popover controller: destroy
  ctlDestroyed           \* client -> destroy() has been called on its controller

popVars == << kind, upExclusive, clientOf, nOpen, inbox, pc, call, toClose, reply,
              closeCallbacks, ctlListeners, closeUnlisten, upListener,
              popoverClosedUnlisten, openPopoverId, callsLeft, owedClose,
              closedByCall, selfClosed, created, regAtOpen, balance >>

regVars == << pendingWindows, completedWindows, resolvers, wstate, registryOpsLeft >>

winVars == << url, autoHide, wpc, unmounted, listening, unlisten, cpc, nwin, nrect,
              mainVisible, topologyLeft, createdHere, dupRectBefore, missed,
              coordRequested >>

sizeVars == << search, propsId, element, observer, apc, width, height, sent, applied, logged,
               resizesLeft >>

geoVars == << position, monitors, geometry, chosen, warned, gpc, monitorChangesLeft,
             openOptions, params, panel, minMaxHeight, placementsLeft >>

hoverVars == << isOverTrigger, isOverPopup, closeTimer, timerLeft, isDestroyed,
               closes, hoverCallsLeft, quiet, pendingAtDestroy, afterDestroy >>

storeVars == << storeKind, subscribers, unlistenFn, pendingListens, nativeListeners,
               nextListener, unsubscribers, storeCallsLeft >>

ctlVars == << ctlDestroyed >>

otherVars == << hoverVars, storeVars, ctlVars >>

vars == << popVars, regVars, winVars, sizeVars, geoVars, otherVars >>

\* ------------------------------------------------------- popover: helpers
StartsWith(str, prefix) ==
  /\ Len(str) >= Len(prefix)
  /\ SubSeq(str, 1, Len(prefix)) = prefix

\* JavaScript truthiness of `exclusive`: true, or a non-empty string.
Truthy(exclusive) ==
  IF exclusive.kind = "bool" THEN exclusive.b ELSE exclusive.s # <<>>

\* popoversToClose without the `id !== options.id` filter.
PopoversToCloseWithSelf(openPopovers, id, exclusive) ==
  IF exclusive.kind = "bool" /\ exclusive.b
  THEN openPopovers
  ELSE LET prefix == exclusive.s \o <<"-">>
       IN  { x \in openPopovers : StartsWith(x, prefix) }

\* popoversToClose with the group prefix taken without its trailing '-'.
PopoversToCloseNoDash(openPopovers, id, exclusive) ==
  IF exclusive.kind = "bool" /\ exclusive.b
  THEN { x \in openPopovers : x # id }
  ELSE { x \in openPopovers : x # id /\ StartsWith(x, exclusive.s) }

PopoversToClose(openPopovers, id, exclusive) ==
  IF exclusive.kind = "bool" /\ exclusive.b
  THEN { x \in openPopovers : x # id }
  ELSE LET prefix == exclusive.s \o <<"-">>
       IN  { x \in openPopovers : x # id /\ StartsWith(x, prefix) }

HasListener(c) == upListener[c] \/ ctlListeners[c] > 0

\* Native emit of popover-closed for each id of `ids`, to every listener.
Emitted(ids) ==
  [c \in Clients |-> [x \in Ids |->
     IF HasListener(c) /\ x \in ids THEN inbox[c][x] + 1 ELSE inbox[c][x]]]

\* Every client can take one more event for each id of `ids`.
Room(ids) == \A c \in Clients, x \in ids : inbox[c][x] < MaxInbox

\* History: the panels `ids` leave the Open state.
BalanceAfterLeave(ids) ==
  [c \in Clients |-> [x \in Ids |->
     IF x \in ids /\ regAtOpen[x] = c THEN balance[c][x] + 1 ELSE balance[c][x]]]

RegAfterLeave(ids) == [x \in Ids |-> IF x \in ids THEN 0 ELSE regAtOpen[x]]


\* ------------------------------------------- popover: native command side
\* close_popover / close_all_popovers / blur: the panels of `ids` that are
\* open are destroyed and one popover-closed is emitted for each.
NativeClose(ids) ==
  LET gone == ids \cap nOpen IN
  /\ nOpen' = nOpen \ gone
  /\ inbox' = Emitted(gone)
  /\ regAtOpen' = RegAfterLeave(gone)
  /\ balance' = BalanceAfterLeave(gone)

\* open_popover: toggle. An open id is closed and the reply carries
\* closed = true; otherwise a fresh panel is created.
NativeOpenPopover(p) ==
  LET id == call[p].id
      c  == clientOf[p]
  IN IF id \in nOpen
     THEN /\ NativeClose({id})
          /\ reply' = [reply EXCEPT ![p] = TRUE]
          /\ selfClosed' = [selfClosed EXCEPT ![p] = @ + 1]
          /\ UNCHANGED created
     ELSE /\ nOpen' = nOpen \cup {id}
          /\ regAtOpen' = [regAtOpen EXCEPT ![id] = IF call[p].onClose THEN c ELSE 0]
          /\ reply' = [reply EXCEPT ![p] = FALSE]
          /\ created' = [created EXCEPT ![p] = TRUE]
          /\ UNCHANGED << inbox, balance, selfClosed >>

\* ------------------------------------------------ popover: configuration
\* What no popover call changes: the instances' configuration, and the window
\* registry and page-load state.
cfgVars == << kind, upExclusive, clientOf, regVars, winVars, sizeVars, geoVars,
             otherVars >>
lstVars == << ctlListeners, closeUnlisten, upListener, popoverClosedUnlisten >>
natVars == << nOpen, inbox, regAtOpen, balance >>
histVars == << owedClose, closedByCall, selfClosed, created >>

\* ------------------------------------------------ controller.open, entry
\* if (exclusive) { openPopovers = await getOpenPopovers(); popoversToClose = ... }
EnterOpen(p, cr) ==
  /\ pc' = [pc EXCEPT ![p] = "loop"]
  /\ IF Truthy(cr.exclusive)
     THEN /\ toClose' = [toClose EXCEPT
                 ![p] = PopoversToClose(nOpen, cr.id, cr.exclusive)]
     ELSE UNCHANGED toClose
  /\ owedClose' = [owedClose EXCEPT
        ![p] = IF cr.exclusive = ExclTrue THEN nOpen \ {cr.id} ELSE {}]

\* ------------------------------------------------ usePopover.toggle
\* toggle(triggerId): await setupEventListeners() registers the instance's
\* popover-closed listener on first use; then controller.open(options, exclusive).
StartToggle(p, id) ==
  LET c  == clientOf[p]
      cr == [op |-> "toggle", id |-> id, exclusive |-> upExclusive[c],
             onClose |-> FALSE]
  IN
  /\ pc[p] = "idle" /\ kind[c] = "usePopover" /\ callsLeft > 0
  /\ callsLeft' = callsLeft - 1
  /\ call' = [call EXCEPT ![p] = cr]
  /\ IF popoverClosedUnlisten[c]
     THEN /\ EnterOpen(p, cr)
          /\ UNCHANGED upListener
     ELSE /\ pc' = [pc EXCEPT ![p] = "setupR"]
          /\ upListener' = [upListener EXCEPT ![c] = TRUE]
          /\ UNCHANGED << toClose, owedClose >>
  /\ UNCHANGED << cfgVars, natVars, reply, closeCallbacks, ctlListeners,
                  closeUnlisten, popoverClosedUnlisten, openPopoverId,
                  closedByCall, selfClosed, created >>

SetupResume(p) ==
  LET c == clientOf[p] IN
  /\ pc[p] = "setupR"
  /\ popoverClosedUnlisten' = [popoverClosedUnlisten EXCEPT ![c] = TRUE]
  /\ EnterOpen(p, call[p])
  /\ UNCHANGED << cfgVars, natVars, call, reply, closeCallbacks, ctlListeners,
                  closeUnlisten, upListener, openPopoverId, callsLeft,
                  closedByCall, selfClosed, created >>

\* ------------------------------------------------ controller.open
StartOpen(p, id, exclusive, onClose) ==
  LET c  == clientOf[p]
      cr == [op |-> "open", id |-> id, exclusive |-> exclusive, onClose |-> onClose]
  IN
  /\ pc[p] = "idle" /\ kind[c] = "controller" /\ callsLeft > 0
  /\ callsLeft' = callsLeft - 1
  /\ call' = [call EXCEPT ![p] = cr]
  /\ EnterOpen(p, cr)
  /\ UNCHANGED << cfgVars, natVars, lstVars, reply, closeCallbacks, openPopoverId,
                  closedByCall, selfClosed, created >>

\* A loop that stops one element short.
LoopDoneAfterFirst(remaining) == Cardinality(remaining) <= 1

\* A loop that does not wait for the closures: it is left at once.
LoopDoneAtOnce(remaining) == TRUE

\* The for loop is over when nothing of popoversToClose is left.
LoopDone(remaining) == remaining = {}

\* for (const id of popoversToClose) { closeCallbacks.delete(id); await closePopover(id) }
LoopClose(p, x) ==
  LET c == clientOf[p] IN
  /\ pc[p] = "loop" /\ ~LoopDone(toClose[p]) /\ x \in toClose[p]
  /\ Room({x})
  /\ closeCallbacks' = [closeCallbacks EXCEPT ![c] = @ \ {x}]
  /\ NativeClose({x})
  /\ toClose' = [toClose EXCEPT ![p] = @ \ {x}]
  /\ owedClose' = [owedClose EXCEPT ![p] = @ \ {x}]
  /\ closedByCall' = [closedByCall EXCEPT
        ![p] = IF x \in nOpen THEN @ \cup {x} ELSE @]
  /\ selfClosed' = [selfClosed EXCEPT
        ![p] = IF x = call[p].id /\ x \in nOpen THEN @ + 1 ELSE @]
  /\ UNCHANGED << cfgVars, lstVars, pc, call, reply, openPopoverId, callsLeft,
                  created >>

\* if (onClose) { await ensureCloseListener(); closeCallbacks.set(id, onClose) }
\* return await openPopover(options)
Reg(p) ==
  LET c == clientOf[p] IN
  /\ pc[p] = "loop" /\ LoopDone(toClose[p])
  /\ IF call[p].onClose /\ ~closeUnlisten[c]
     THEN /\ ctlListeners' = [ctlListeners EXCEPT ![c] = @ + 1]
          /\ pc' = [pc EXCEPT ![p] = "regR"]
          /\ UNCHANGED << natVars, reply, closeCallbacks, selfClosed, created >>
     ELSE /\ Room({call[p].id})
          /\ closeCallbacks' = [closeCallbacks EXCEPT
                ![c] = IF call[p].onClose THEN @ \cup {call[p].id} ELSE @]
          /\ NativeOpenPopover(p)
          /\ pc' = [pc EXCEPT ![p] = "ret"]
          /\ UNCHANGED ctlListeners
  /\ UNCHANGED << cfgVars, closeUnlisten, upListener, popoverClosedUnlisten, call,
                  toClose, openPopoverId, callsLeft, owedClose, closedByCall >>

RegResume(p) ==
  LET c == clientOf[p] IN
  /\ pc[p] = "regR"
  /\ Room({call[p].id})
  /\ closeUnlisten' = [closeUnlisten EXCEPT ![c] = TRUE]
  /\ closeCallbacks' = [closeCallbacks EXCEPT ![c] = @ \cup {call[p].id}]
  /\ NativeOpenPopover(p)
  /\ pc' = [pc EXCEPT ![p] = "ret"]
  /\ UNCHANGED << cfgVars, ctlListeners, upListener, popoverClosedUnlisten, call,
                  toClose, openPopoverId, callsLeft, owedClose, closedByCall >>

\* usePopover.toggle after controller.open:
\* openPopoverId.value = result.closed ? null : triggerId
OpenPopoverIdAfter(closed, triggerId) == IF closed THEN None ELSE triggerId

Ret(p) ==
  LET c == clientOf[p] IN
  /\ pc[p] = "ret"
  /\ openPopoverId' = [openPopoverId EXCEPT
        ![c] = IF call[p].op = "toggle"
               THEN OpenPopoverIdAfter(reply[p], call[p].id) ELSE @]
  /\ pc' = [pc EXCEPT ![p] = "idle"]
  /\ call' = [call EXCEPT ![p] = NoCall]
  /\ reply' = [reply EXCEPT ![p] = FALSE]
  /\ owedClose' = [owedClose EXCEPT ![p] = {}]
  /\ closedByCall' = [closedByCall EXCEPT ![p] = {}]
  /\ selfClosed' = [selfClosed EXCEPT ![p] = 0]
  /\ created' = [created EXCEPT ![p] = FALSE]
  /\ UNCHANGED << cfgVars, natVars, lstVars, toClose, closeCallbacks, callsLeft >>

\* ------------------------------------------------ controller.close / closeAll
\* A close that drops the callback but sends no close request.
StartCloseNoRequest(p, id) ==
  LET c == clientOf[p] IN
  /\ pc[p] = "idle" /\ kind[c] = "controller" /\ callsLeft > 0
  /\ callsLeft' = callsLeft - 1
  /\ call' = [call EXCEPT ![p] = [op |-> "close", id |-> id,
                                  exclusive |-> ExclFalse, onClose |-> FALSE]]
  /\ closeCallbacks' = [closeCallbacks EXCEPT ![c] = @ \ {id}]
  /\ pc' = [pc EXCEPT ![p] = "ret"]
  /\ UNCHANGED << cfgVars, natVars, histVars, lstVars, toClose, reply,
                  openPopoverId >>

StartClose(p, id) ==
  LET c == clientOf[p] IN
  /\ pc[p] = "idle" /\ kind[c] = "controller" /\ callsLeft > 0
  /\ Room({id} \cap nOpen)
  /\ callsLeft' = callsLeft - 1
  /\ call' = [call EXCEPT ![p] = [op |-> "close", id |-> id,
                                  exclusive |-> ExclFalse, onClose |-> FALSE]]
  /\ closeCallbacks' = [closeCallbacks EXCEPT ![c] = @ \ {id}]
  /\ NativeClose({id})
  /\ pc' = [pc EXCEPT ![p] = "ret"]
  /\ UNCHANGED << cfgVars, histVars, lstVars, toClose, reply, openPopoverId >>

StartCloseAll(p) ==
  LET c == clientOf[p] IN
  /\ pc[p] = "idle" /\ kind[c] = "controller" /\ callsLeft > 0
  /\ Room(nOpen)
  /\ callsLeft' = callsLeft - 1
  /\ call' = [call EXCEPT ![p] = [op |-> "closeAll", id |-> None,
                                  exclusive |-> ExclFalse, onClose |-> FALSE]]
  /\ closeCallbacks' = [closeCallbacks EXCEPT ![c] = {}]
  /\ NativeClose(nOpen)
  /\ pc' = [pc EXCEPT ![p] = "ret"]
  /\ UNCHANGED << cfgVars, histVars, lstVars, toClose, reply, openPopoverId >>

\* ------------------------------------------------ usePopover.close
StartUpClose(p) ==
  LET c == clientOf[p] IN
  /\ pc[p] = "idle" /\ kind[c] = "usePopover" /\ callsLeft > 0
  /\ openPopoverId[c] # None
  /\ Room({openPopoverId[c]})
  /\ callsLeft' = callsLeft - 1
  /\ call' = [call EXCEPT ![p] = [op |-> "upClose", id |-> openPopoverId[c],
                                  exclusive |-> ExclFalse, onClose |-> FALSE]]
  /\ closeCallbacks' = [closeCallbacks EXCEPT ![c] = @ \ {openPopoverId[c]}]
  /\ NativeClose({openPopoverId[c]})
  /\ pc' = [pc EXCEPT ![p] = "upCloseR"]
  /\ UNCHANGED << cfgVars, histVars, lstVars, toClose, reply, openPopoverId >>

UpCloseResume(p) ==
  LET c == clientOf[p] IN
  /\ pc[p] = "upCloseR"
  /\ openPopoverId' = [openPopoverId EXCEPT ![c] = None]
  /\ pc' = [pc EXCEPT ![p] = "idle"]
  /\ call' = [call EXCEPT ![p] = NoCall]
  /\ UNCHANGED << cfgVars, natVars, histVars, lstVars, toClose, reply,
                  closeCallbacks, callsLeft >>

\* ------------------------------------------------ environment
\* The panel loses focus: the native side closes it.
Blur(x) ==
  /\ x \in nOpen
  /\ Room({x})
  /\ NativeClose({x})
  /\ UNCHANGED << cfgVars, histVars, lstVars, pc, call, toClose, reply,
                  closeCallbacks, openPopoverId, callsLeft >>

\* ensureCloseListener's handler on one popover-closed event:
\* callback = closeCallbacks.get(id); if (callback) { callback(); delete }
HandlerInvocations(callbacks, e) == IF e \in callbacks THEN 1 ELSE 0
HandlerCallbacks(callbacks, e) == callbacks \ {e}

\* usePopover's handler: if (event.payload === openPopoverId.value) -> null
HandlerOpenPopoverId(current, e) == IF e = current THEN None ELSE current

\* One popover-closed event for e reaches client c `times` times in a row.
DeliverN(c, e, times) ==
  LET cb1  == IF ctlListeners[c] > 0 THEN HandlerCallbacks(closeCallbacks[c], e)
              ELSE closeCallbacks[c]
      n1   == IF ctlListeners[c] > 0 THEN HandlerInvocations(closeCallbacks[c], e)
              ELSE 0
      n2   == IF times = 2 /\ ctlListeners[c] > 0 THEN HandlerInvocations(cb1, e)
              ELSE 0
      cb2  == IF times = 2 /\ ctlListeners[c] > 0 THEN HandlerCallbacks(cb1, e)
              ELSE cb1
  IN
  /\ inbox[c][e] > 0
  /\ inbox' = [inbox EXCEPT ![c][e] = @ - 1]
  /\ closeCallbacks' = [closeCallbacks EXCEPT ![c] = cb2]
  /\ balance' = [balance EXCEPT ![c][e] = @ - (n1 + n2)]
  /\ openPopoverId' = [openPopoverId EXCEPT
        ![c] = IF upListener[c] THEN HandlerOpenPopoverId(@, e) ELSE @]
  /\ UNCHANGED << cfgVars, histVars, lstVars, nOpen, regAtOpen, pc, call, toClose,
                  reply, callsLeft >>

Deliver(c, e) == DeliverN(c, e, 1)
DeliverTwice(c, e) == DeliverN(c, e, 2)

\* ------------------------------------------------ specification
PopInit ==
  /\ kind \in [Clients -> {"usePopover", "controller"}]
  /\ kind[1] = "usePopover"
  /\ upExclusive \in [Clients -> ExclusiveValues]
  /\ \A c \in Clients : kind[c] = "controller" => upExclusive[c] = ExclFalse
  /\ kind[2] = "usePopover" => upExclusive[2] = upExclusive[1]
  /\ clientOf = [p \in Procs |-> p]
  /\ nOpen = {}
  /\ inbox = [c \in Clients |-> [x \in Ids |-> 0]]
  /\ pc = [p \in Procs |-> "idle"]
  /\ call = [p \in Procs |-> NoCall]
  /\ toClose = [p \in Procs |-> {}]
  /\ reply = [p \in Procs |-> FALSE]
  /\ closeCallbacks = [c \in Clients |-> {}]
  /\ ctlListeners = [c \in Clients |-> 0]
  /\ closeUnlisten = [c \in Clients |-> FALSE]
  /\ upListener = [c \in Clients |-> FALSE]
  /\ popoverClosedUnlisten = [c \in Clients |-> FALSE]
  /\ openPopoverId = [c \in Clients |-> None]
  /\ callsLeft = MaxCalls
  /\ owedClose = [p \in Procs |-> {}]
  /\ closedByCall = [p \in Procs |-> {}]
  /\ selfClosed = [p \in Procs |-> 0]
  /\ created = [p \in Procs |-> FALSE]
  /\ regAtOpen = [x \in Ids |-> 0]
  /\ balance = [c \in Clients |-> [x \in Ids |-> 0]]

\* ------------------------------------------------ controller.destroy
\* destroy(): if (closeUnlisten) { closeUnlisten(); closeUnlisten = null };
\* closeCallbacks.clear()
DestroyController(c) ==
  /\ kind[c] = "controller" /\ ~ctlDestroyed[c]
  /\ ctlDestroyed' = [ctlDestroyed EXCEPT ![c] = TRUE]
  /\ IF closeUnlisten[c]
     THEN /\ ctlListeners' = [ctlListeners EXCEPT ![c] = @ - 1]
          /\ closeUnlisten' = [closeUnlisten EXCEPT ![c] = FALSE]
     ELSE UNCHANGED << ctlListeners, closeUnlisten >>
  /\ closeCallbacks' = [closeCallbacks EXCEPT ![c] = {}]
  /\ UNCHANGED << kind, upExclusive, clientOf, regVars, winVars, sizeVars, geoVars,
                  hoverVars, storeVars, natVars, histVars, upListener,
                  popoverClosedUnlisten, pc, call, toClose, reply, openPopoverId,
                  callsLeft >>

\* controller.open(options, undefined, onClose) on a controller in use
ControllerOpen(p, id) ==
  /\ ~ctlDestroyed[clientOf[p]]
  /\ StartOpen(p, id, ExclFalse, TRUE)

\* One controller shared by the calls in flight, nothing open yet.
CtlInit ==
  /\ kind = [c \in Clients |-> "controller"]
  /\ upExclusive = [c \in Clients |-> ExclFalse]
  /\ clientOf = [p \in Procs |-> 1]
  /\ nOpen = {}
  /\ inbox = [c \in Clients |-> [x \in Ids |-> 0]]
  /\ pc = [p \in Procs |-> "idle"]
  /\ call = [p \in Procs |-> NoCall]
  /\ toClose = [p \in Procs |-> {}]
  /\ reply = [p \in Procs |-> FALSE]
  /\ closeCallbacks = [c \in Clients |-> {}]
  /\ ctlListeners = [c \in Clients |-> 0]
  /\ closeUnlisten = [c \in Clients |-> FALSE]
  /\ upListener = [c \in Clients |-> FALSE]
  /\ popoverClosedUnlisten = [c \in Clients |-> FALSE]
  /\ openPopoverId = [c \in Clients |-> None]
  /\ callsLeft = MaxCalls
  /\ owedClose = [p \in Procs |-> {}]
  /\ closedByCall = [p \in Procs |-> {}]
  /\ selfClosed = [p \in Procs |-> 0]
  /\ created = [p \in Procs |-> FALSE]
  /\ regAtOpen = [x \in Ids |-> 0]
  /\ balance = [c \in Clients |-> [x \in Ids |-> 0]]

NextController ==
  \/ \E p \in Procs, id \in Ids : ControllerOpen(p, id)
  \/ \E p \in Procs : Reg(p)
  \/ \E p \in Procs : RegResume(p)
  \/ \E p \in Procs : Ret(p)
  \/ \E x \in Ids : Blur(x)
  \/ \E c \in Clients, e \in Ids : Deliver(c, e)
  \/ \E c \in Clients : DestroyController(c)

NextPopover ==
  \/ \E p \in Procs, id \in Ids : StartToggle(p, id)
  \/ \E p \in Procs : SetupResume(p)
  \/ \E p \in Procs, id \in Ids, e \in ExclusiveValues :
        StartOpen(p, id, e, TRUE)
  \/ \E p \in Procs, x \in Ids : LoopClose(p, x)
  \/ \E p \in Procs : Reg(p)
  \/ \E p \in Procs : RegResume(p)
  \/ \E p \in Procs : Ret(p)
  \/ \E p \in Procs, id \in Ids : StartClose(p, id)
  \/ \E p \in Procs : StartCloseAll(p)
  \/ \E p \in Procs : StartUpClose(p)
  \/ \E p \in Procs : UpCloseResume(p)
  \/ \E x \in Ids : Blur(x)
  \/ \E c \in Clients, e \in Ids : Deliver(c, e)
  \/ \E c \in Clients, e \in Ids : DeliverTwice(c, e)

\* A session in progress: two controllers, the first with its popover-closed
\* listener registered by an earlier open, and every popover left open by
\* earlier calls made without onClose.
PopSession ==
  /\ kind = [c \in Clients |-> "controller"]
  /\ upExclusive = [c \in Clients |-> ExclFalse]
  /\ clientOf = [p \in Procs |-> p]
  /\ nOpen = Ids
  /\ inbox = [c \in Clients |-> [x \in Ids |-> 0]]
  /\ pc = [p \in Procs |-> "idle"]
  /\ call = [p \in Procs |-> NoCall]
  /\ toClose = [p \in Procs |-> {}]
  /\ reply = [p \in Procs |-> FALSE]
  /\ closeCallbacks = [c \in Clients |-> {}]
  /\ ctlListeners = [c \in Clients |-> IF c = 1 THEN 1 ELSE 0]
  /\ closeUnlisten = [c \in Clients |-> c = 1]
  /\ upListener = [c \in Clients |-> FALSE]
  /\ popoverClosedUnlisten = [c \in Clients |-> FALSE]
  /\ openPopoverId = [c \in Clients |-> None]
  /\ callsLeft = MaxCalls
  /\ owedClose = [p \in Procs |-> {}]
  /\ closedByCall = [p \in Procs |-> {}]
  /\ selfClosed = [p \in Procs |-> 0]
  /\ created = [p \in Procs |-> FALSE]
  /\ regAtOpen = [x \in Ids |-> 0]
  /\ balance = [c \in Clients |-> [x \in Ids |-> 0]]

NextExclusive ==
  \/ \E p \in Procs, id \in Ids, e \in {ExclTrue, ExclGroup} :
        StartOpen(p, id, e, FALSE)
  \/ \E p \in Procs, x \in Ids : LoopClose(p, x)
  \/ \E p \in Procs : Reg(p)
  \/ \E p \in Procs : Ret(p)
  \/ \E p \in Procs, id \in Ids : StartClose(p, id)
  \/ \E x \in Ids : Blur(x)
  \/ \E c \in Clients, e \in Ids : Deliver(c, e)

\* Popover state of a page that uses no popover.
PopIdle ==
  /\ kind = [c \in Clients |-> "controller"]
  /\ upExclusive = [c \in Clients |-> ExclFalse]
  /\ clientOf = [p \in Procs |-> p]
  /\ nOpen = {}
  /\ inbox = [c \in Clients |-> [x \in Ids |-> 0]]
  /\ pc = [p \in Procs |-> "idle"]
  /\ call = [p \in Procs |-> NoCall]
  /\ toClose = [p \in Procs |-> {}]
  /\ reply = [p \in Procs |-> FALSE]
  /\ closeCallbacks = [c \in Clients |-> {}]
  /\ ctlListeners = [c \in Clients |-> 0]
  /\ closeUnlisten = [c \in Clients |-> FALSE]
  /\ upListener = [c \in Clients |-> FALSE]
  /\ popoverClosedUnlisten = [c \in Clients |-> FALSE]
  /\ openPopoverId = [c \in Clients |-> None]
  /\ callsLeft = 0
  /\ owedClose = [p \in Procs |-> {}]
  /\ closedByCall = [p \in Procs |-> {}]
  /\ selfClosed = [p \in Procs |-> 0]
  /\ created = [p \in Procs |-> FALSE]
  /\ regAtOpen = [x \in Ids |-> 0]
  /\ balance = [c \in Clients |-> [x \in Ids |-> 0]]



\* ======================================================================
\* Window creation registry (windowRegistry.ts)
\* ======================================================================
\* waitForAllWindows: if (pendingWindows.value.size === 0) return Promise.resolve()
WaitReturnsAtOnce(pending) == pending = {}

\* A markWindowCompleted that resolves the waiters at the first completion.
ShouldResolveAny(pending, res) == Len(res) > 0

\* markWindowCompleted: if (pendingWindows.value.size === 0 && resolvers.length > 0)
ShouldResolve(pending, res) == pending = {} /\ Len(res) > 0

InResolvers(k) == \E i \in 1..Len(resolvers) : resolvers[i] = k

\* registerPendingWindow(id)
RegisterPendingWindow(id) ==
  /\ pendingWindows' = pendingWindows \cup {id}
  /\ UNCHANGED << completedWindows, resolvers, wstate >>

\* markWindowCompleted(id)
MarkWindowCompleted(id) ==
  LET pending == pendingWindows \ {id} IN
  /\ pendingWindows' = pending
  /\ completedWindows' = completedWindows \cup {id}
  /\ IF ShouldResolve(pending, resolvers)
     THEN /\ wstate' = [k \in Waiters |-> IF InResolvers(k) THEN "resolved" ELSE wstate[k]]
          /\ resolvers' = <<>>
     ELSE UNCHANGED << wstate, resolvers >>

\* waitForAllWindows() called by k
WaitForAllWindows(k) ==
  /\ IF WaitReturnsAtOnce(pendingWindows)
     THEN /\ wstate' = [wstate EXCEPT ![k] = "resolved"]
          /\ UNCHANGED resolvers
     ELSE /\ wstate' = [wstate EXCEPT ![k] = "waiting"]
          /\ resolvers' = Append(resolvers, k)
  /\ UNCHANGED << pendingWindows, completedWindows >>

\* resetWindowRegistry()
ResetWindowRegistry ==
  /\ pendingWindows' = {}
  /\ completedWindows' = {}
  /\ resolvers' = <<>>
  /\ UNCHANGED wstate

\* ---- the registry API called in any order
RegistryOp == registryOpsLeft > 0 /\ registryOpsLeft' = registryOpsLeft - 1

CallRegister(id) ==
  /\ RegistryOp /\ RegisterPendingWindow(id)
  /\ UNCHANGED << popVars, otherVars, sizeVars, geoVars, winVars >>

CallMark(id) ==
  /\ RegistryOp /\ MarkWindowCompleted(id)
  /\ UNCHANGED << popVars, otherVars, sizeVars, geoVars, winVars >>

CallWait(k) ==
  /\ RegistryOp /\ wstate[k] = "idle" /\ WaitForAllWindows(k)
  /\ UNCHANGED << popVars, otherVars, sizeVars, geoVars, winVars >>

CallReset ==
  /\ RegistryOp /\ ResetWindowRegistry
  /\ UNCHANGED << popVars, otherVars, sizeVars, geoVars, winVars >>

\* ======================================================================
\* One page load of the bundle: role detection, <Window>, useCoordinator
\* ======================================================================
\* `if (windowId)`: a string is truthy unless it is null or empty.
TruthyParam(v) == v # Null /\ v # ""

\* getWindowContext().mode
WindowContextMode(u) ==
  IF TruthyParam(u.window) THEN "window"
  ELSE IF TruthyParam(u.float) THEN "window"
  ELSE "coordinator"

\* isCoordinator()
IsCoordinator(u) == WindowContextMode(u) = "coordinator"

\* getWindowId()
GetWindowId(u) ==
  IF TruthyParam(u.window) THEN u.window
  ELSE IF TruthyParam(u.float) THEN u.float
  ELSE Null

\* getPopoverContext().isPopover
IsPopover(u) == u.popover # Null

\* App.vue: useCoordinator({ autoHide: !isPopover.value }); the option defaults to true.
AppAutoHide(u) == IF IsPopover(u) THEN {FALSE} ELSE BOOLEAN

\* ---- native window commands
\* create_inline_window: DuplicateId when the id is live, NativeCreateFailed when
\* the platform fails; neither leaves a record. The realized window is shown or
\* not yet shown.
NativeCreateOk(w, ok, shown) ==
  /\ ok => nwin[w] = "absent"
  /\ IF ok
     THEN /\ nwin' = [nwin EXCEPT ![w] = IF shown THEN "visible" ELSE "hidden"]
          /\ nrect' = [nrect EXCEPT ![w] = "target"]
     ELSE UNCHANGED << nwin, nrect >>

\* show_window: NotFound when the label is not live; the request for a live
\* window is answered ok or with the platform's error.
NativeShowOk(w, ok) ==
  /\ ok => nwin[w] # "absent"
  /\ nwin' = [nwin EXCEPT ![w] = IF ok THEN "visible" ELSE @]
  /\ UNCHANGED nrect

\* update_window_position: NotFound when the label is not live.
NativeUpdate(w) ==
  /\ nrect' = [nrect EXCEPT ![w] = IF nwin[w] # "absent" THEN "target" ELSE @]
  /\ UNCHANGED nwin

\* close_window
NativeCloseWindow(w) ==
  /\ nwin' = [nwin EXCEPT ![w] = "absent"]
  /\ nrect' = [nrect EXCEPT ![w] = "none"]

\* ---- <Window> setup: if (shouldCreateWindow.value) registerPendingWindow(props.id)
Setup(w) ==
  /\ wpc[w] = "init"
  /\ wpc' = [wpc EXCEPT ![w] = "setup"]
  /\ IF IsCoordinator(url)
     THEN RegisterPendingWindow(w)
     ELSE UNCHANGED << pendingWindows, completedWindows, resolvers, wstate >>
  /\ UNCHANGED << popVars, otherVars, sizeVars, geoVars, registryOpsLeft, url, autoHide, unmounted, listening,
                  unlisten, cpc, nwin, nrect, mainVisible, topologyLeft, createdHere,
                  dupRectBefore, missed, coordRequested >>

\* ---- onMounted: createWindow() -> createInlineWindow: invoke('create_inline_window')
Mount(w, ok, shown) ==
  /\ wpc[w] = "setup"
  /\ IF IsCoordinator(url)
     THEN /\ NativeCreateOk(w, ok, shown)
          /\ ok \/ shown
          /\ wpc' = [wpc EXCEPT ![w] = IF ok THEN "showReq" ELSE "catch"]
          /\ createdHere' = [createdHere EXCEPT ![w] = ok]
          /\ dupRectBefore' = [dupRectBefore EXCEPT
                ![w] = IF nwin[w] # "absent" THEN nrect[w] ELSE "none"]
          /\ coordRequested' = TRUE
     ELSE /\ ok /\ shown
          /\ wpc' = [wpc EXCEPT ![w] = "mounted"]
          /\ UNCHANGED << nwin, nrect, createdHere, dupRectBefore, coordRequested >>
  /\ UNCHANGED << popVars, otherVars, sizeVars, geoVars, regVars, url, autoHide, unmounted, listening, unlisten,
                  cpc, mainVisible, topologyLeft, missed >>

\* ---- createInlineWindow: await invoke('show_window', { label })
Show(w, ok) ==
  /\ wpc[w] = "showReq"
  /\ NativeShowOk(w, ok)
  /\ wpc' = [wpc EXCEPT ![w] = IF ok THEN "mark" ELSE "catch"]
  /\ UNCHANGED << popVars, otherVars, sizeVars, geoVars, regVars, url, autoHide, unmounted, listening, unlisten,
                  cpc, mainVisible, topologyLeft, createdHere, dupRectBefore, missed,
                  coordRequested >>

\* A createWindow without the catch block: the failure of createInlineWindow
\* leaves onMounted.
CreateWindowRethrow(w) ==
  /\ wpc[w] = "catch"
  /\ wpc' = [wpc EXCEPT ![w] = "failed"]
  /\ UNCHANGED << popVars, otherVars, sizeVars, geoVars, regVars, url, autoHide, unmounted, listening, unlisten,
                  cpc, nwin, nrect, mainVisible, topologyLeft, createdHere,
                  dupRectBefore, missed, coordRequested >>

\* ---- createWindow: catch { await updateWindowPosition(props.id, props.position) }
CreateWindowCatch(w) ==
  /\ wpc[w] = "catch"
  /\ NativeUpdate(w)
  /\ wpc' = [wpc EXCEPT ![w] = IF nwin[w] # "absent" THEN "mark" ELSE "failed"]
  /\ UNCHANGED << popVars, otherVars, sizeVars, geoVars, regVars, url, autoHide, unmounted, listening, unlisten,
                  cpc, mainVisible, topologyLeft, createdHere, dupRectBefore, missed,
                  coordRequested >>

\* ---- onMounted after createWindow: markWindowCompleted(props.id);
\* unlisten = await listen('monitor-changed', ...). A caller of waitForAllWindows
\* that markWindowCompleted resolves continues in the same turn: useCoordinator
\* goes on to hideCoordinator(), invoke('hide_window', { label: 'main' }).
Mark(w) ==
  /\ wpc[w] = "mark"
  /\ MarkWindowCompleted(w)
  /\ listening' = [listening EXCEPT ![w] = @ + 1]
  /\ wpc' = [wpc EXCEPT ![w] = "listenR"]
  /\ IF cpc = "waiting" /\ wstate'[Coordinator] = "resolved"
     THEN /\ cpc' = "done"
          /\ mainVisible' = FALSE
     ELSE UNCHANGED << cpc, mainVisible >>
  /\ UNCHANGED << popVars, otherVars, sizeVars, geoVars, registryOpsLeft, url, autoHide, unmounted, unlisten, nwin,
                  nrect, topologyLeft, createdHere, dupRectBefore, missed,
                  coordRequested >>

ListenResume(w) ==
  /\ wpc[w] = "listenR"
  /\ unlisten' = [unlisten EXCEPT ![w] = TRUE]
  /\ wpc' = [wpc EXCEPT ![w] = "mounted"]
  /\ UNCHANGED << popVars, otherVars, sizeVars, geoVars, regVars, url, autoHide, unmounted, listening, cpc, nwin,
                  nrect, mainVisible, topologyLeft, createdHere, dupRectBefore, missed,
                  coordRequested >>

\* ---- onUnmounted: unlisten?.(); if (shouldCreateWindow.value) await destroyWindow()
Unmount(w) ==
  /\ wpc[w] \notin {"init", "setup"} /\ ~unmounted[w]
  /\ unmounted' = [unmounted EXCEPT ![w] = TRUE]
  /\ listening' = [listening EXCEPT ![w] = IF unlisten[w] THEN @ - 1 ELSE @]
  /\ IF IsCoordinator(url)
     THEN /\ NativeCloseWindow(w)
          /\ coordRequested' = TRUE
     ELSE UNCHANGED << nwin, nrect, coordRequested >>
  /\ UNCHANGED << popVars, otherVars, sizeVars, geoVars, regVars, url, autoHide, wpc, unlisten, cpc, mainVisible,
                  topologyLeft, createdHere, dupRectBefore, missed >>

\* ---- useCoordinator onMounted:
\* if (isCoordinator.value && autoHide) { await waitForAllWindows(); await hideCoordinator() }
CoordMounted ==
  /\ cpc = "init"
  /\ IF IsCoordinator(url) /\ autoHide
     THEN /\ WaitForAllWindows(Coordinator)
          /\ IF wstate'[Coordinator] = "resolved"
             THEN /\ cpc' = "done"
                  /\ mainVisible' = FALSE
             ELSE /\ cpc' = "waiting"
                  /\ UNCHANGED mainVisible
     ELSE /\ cpc' = "done"
          /\ UNCHANGED << pendingWindows, completedWindows, resolvers, wstate,
                          mainVisible >>
  /\ UNCHANGED << popVars, otherVars, sizeVars, geoVars, registryOpsLeft, url, autoHide, wpc, unmounted, listening,
                  unlisten, nwin, nrect, topologyLeft, createdHere, dupRectBefore,
                  missed, coordRequested >>

\* ---- the monitor topology changes: every window's rectangle is stale until it
\* is repositioned; each registered listener calls updateWindowPosition.
Live(w) ==
  IsCoordinator(url) /\ createdHere[w] /\ ~unmounted[w] /\ nwin[w] # "absent"

MonitorChange ==
  /\ topologyLeft > 0
  /\ topologyLeft' = topologyLeft - 1
  /\ nrect' = [w \in WinIds |->
       IF nwin[w] = "absent" THEN "none"
       ELSE IF listening[w] > 0 THEN "target" ELSE "stale"]
  /\ missed' = [w \in WinIds |-> missed[w] \/ (Live(w) /\ listening[w] = 0)]
  /\ coordRequested' = (coordRequested \/ \E w \in WinIds : listening[w] > 0)
  /\ UNCHANGED << popVars, otherVars, sizeVars, geoVars, regVars, url, autoHide, wpc, unmounted, listening,
                  unlisten, cpc, nwin, mainVisible, createdHere, dupRectBefore >>

\* ---- specifications
RegInit ==
  /\ pendingWindows = {}
  /\ completedWindows = {}
  /\ resolvers = <<>>
  /\ wstate = [k \in Waiters |-> "idle"]

UrlValues ==
  { [window |-> Null,  float |-> Null, popover |-> Null],
    [window |-> "bar", float |-> Null, popover |-> Null],
    [window |-> Null,  float |-> "f",  popover |-> Null],
    [window |-> Null,  float |-> Null, popover |-> "g-i"] }

WinInit ==
  /\ url \in UrlValues
  /\ autoHide \in AppAutoHide(url)
  /\ wpc = [w \in WinIds |-> "init"]
  /\ unmounted = [w \in WinIds |-> FALSE]
  /\ listening = [w \in WinIds |-> 0]
  /\ unlisten = [w \in WinIds |-> FALSE]
  /\ cpc = "init"
  /\ nwin \in [WinIds -> {"absent", "visible"}]
  /\ nrect \in [WinIds -> {"none", "target", "stale"}]
  /\ \A w \in WinIds : nrect[w] = "none" <=> nwin[w] = "absent"
  /\ mainVisible = TRUE
  /\ createdHere = [w \in WinIds |-> FALSE]
  /\ dupRectBefore = [w \in WinIds |-> "none"]
  /\ missed = [w \in WinIds |-> FALSE]
  /\ coordRequested = FALSE

\* The page of a registry that nobody mounts.
WinIdle ==
  /\ url = [window |-> Null, float |-> Null, popover |-> Null]
  /\ autoHide = TRUE
  /\ wpc = [w \in WinIds |-> "init"]
  /\ unmounted = [w \in WinIds |-> FALSE]
  /\ listening = [w \in WinIds |-> 0]
  /\ unlisten = [w \in WinIds |-> FALSE]
  /\ cpc = "init"
  /\ nwin = [w \in WinIds |-> "absent"]
  /\ nrect = [w \in WinIds |-> "none"]
  /\ mainVisible = TRUE
  /\ topologyLeft = 0
  /\ createdHere = [w \in WinIds |-> FALSE]
  /\ dupRectBefore = [w \in WinIds |-> "none"]
  /\ missed = [w \in WinIds |-> FALSE]
  /\ coordRequested = FALSE

\* ------------------------------------------- popover child: getPopoverContext
SearchValues == [popover : {Null, "p"}, max_height : {Undefined, <<300>>}]

\* The object returned has the fields id and isPopover only: reading its
\* maxHeight gives undefined whatever the URL holds.
GetPopoverContext(q) ==
  [id |-> q.popover, isPopover |-> q.popover # Null, maxHeight |-> Undefined]

\* ------------------------------------------- popover child: <Popover> component
PopoverContext == GetPopoverContext(search)

ShouldRenderContent == PopoverContext.isPopover /\ PopoverContext.id = propsId

TruthyNumber(v) == v # Undefined /\ v[1] # 0

\* useAutoSize(contentRef, { enabled, maxHeight: popoverContext.maxHeight ?? undefined })
PopoverOptions ==
  [enabled   |-> ShouldRenderContent,
   minWidth  |-> Undefined, maxWidth  |-> Undefined,
   minHeight |-> Undefined, maxHeight |-> PopoverContext.maxHeight]

\* :style maxHeight of the content container, Undefined when not set
ContainerMaxHeight ==
  IF TruthyNumber(PopoverContext.maxHeight) THEN PopoverContext.maxHeight ELSE Undefined

\* ------------------------------------------- popover child: useAutoSize
\* What updateSize reads of the element: scrollWidth, scrollHeight and, when a
\* scrollable child exists, its scrollHeight - clientHeight.
Measures == [scrollWidth : {0, 400}, scrollHeight : {200, 600},
             hidden : {Undefined, <<400>>}]

IsEnabled(options) == options.enabled

Clamp(value, min, max) ==
  LET r == IF min # Undefined /\ min[1] > value THEN min[1] ELSE value
  IN  IF max # Undefined /\ max[1] < r THEN max[1] ELSE r

TotalContentHeight(el) ==
  el.scrollHeight + (IF el.hidden # Undefined /\ el.hidden[1] > 0 THEN el.hidden[1] ELSE 0)

NewSize(el, options) ==
  LET maxVal == options.maxHeight IN
  [width  |-> Clamp(el.scrollWidth, options.minWidth, options.maxWidth),
   height |-> IF TruthyNumber(maxVal) /\ TotalContentHeight(el) > maxVal[1]
              THEN maxVal[1]
              ELSE Clamp(el.scrollHeight, options.minHeight, options.maxHeight)]

\* updateSize with `ok` the outcome of set_window_size; a rejection is logged
\* and swallowed, the refs keep the new size.
UpdateSize(el, options, ok) ==
  IF el = Undefined \/ ~IsEnabled(options)
  THEN UNCHANGED << width, height, sent, applied, logged >>
  ELSE LET n == NewSize(el, options) IN
       IF (n.width = width /\ n.height = height) \/ n.width = 0 \/ n.height = 0
       THEN UNCHANGED << width, height, sent, applied, logged >>
       ELSE /\ width' = n.width
            /\ height' = n.height
            /\ sent' = Append(sent, n)
            /\ applied' = IF ok THEN << n >> ELSE applied
            /\ logged' = IF ok THEN logged ELSE logged + 1

restVars == << popVars, regVars, winVars, geoVars, otherVars >>

\* onMounted up to `await nextTick()`
PopoverMounted ==
  /\ apc = "setup"
  /\ IF element # Undefined /\ IsEnabled(PopoverOptions)
     THEN observer' = TRUE /\ apc' = "tick"
     ELSE observer' = observer /\ apc' = "mounted"
  /\ UNCHANGED << restVars, search, propsId, element, width, height, sent, applied, logged,
                  resizesLeft >>

\* onMounted after nextTick: updateSize()
AfterTick(ok) ==
  /\ apc \in {"tick", "tickGone"}
  /\ UpdateSize(element, PopoverOptions, ok)
  /\ apc' = IF apc = "tick" THEN "mounted" ELSE "unmounted"
  /\ UNCHANGED << restVars, search, propsId, element, observer, resizesLeft >>

\* The content changes size: the ResizeObserver callback runs updateSize.
ObservedResize(m, ok) ==
  /\ observer /\ element # Undefined /\ m # element
  /\ resizesLeft > 0
  /\ resizesLeft' = resizesLeft - 1
  /\ element' = m
  /\ UpdateSize(m, PopoverOptions, ok)
  /\ UNCHANGED << restVars, search, propsId, observer, apc >>

\* onUnmounted: the observer is disconnected; the element is gone.
PopoverUnmounted ==
  /\ apc \in {"tick", "mounted"}
  /\ apc' = IF apc = "tick" THEN "tickGone" ELSE "unmounted"
  /\ observer' = FALSE
  /\ element' = Undefined
  /\ UNCHANGED << restVars, search, propsId, width, height, sent, applied, logged,
                  resizesLeft >>

SizeInit ==
  /\ search \in SearchValues
  /\ propsId \in {"p", "q"}
  /\ element \in IF ShouldRenderContent THEN Measures ELSE {Undefined}
  /\ observer = FALSE
  /\ apc = "setup"
  /\ width = 0 /\ height = 0
  /\ sent = << >>
  /\ applied = Undefined
  /\ logged = 0
  /\ resizesLeft = MaxResizes

SizeIdle ==
  /\ search = [popover |-> Null, max_height |-> Undefined]
  /\ propsId = "p"
  /\ element = Undefined
  /\ observer = FALSE
  /\ apc = "unmounted"
  /\ width = 0 /\ height = 0
  /\ sent = << >>
  /\ applied = Undefined
  /\ logged = 0
  /\ resizesLeft = 0

GeoIdle ==
  /\ position = Undefined
  /\ monitors = << >>
  /\ geometry = Undefined
  /\ chosen = Undefined
  /\ warned = 0
  /\ gpc = "idle"
  /\ monitorChangesLeft = 0
  /\ openOptions = Undefined
  /\ params = Undefined
  /\ panel = Undefined
  /\ minMaxHeight = 1
  /\ placementsLeft = 0

\* ------------------------------------------- monitors
Monitor1 == [name |-> "built-in", x |-> 0,    y |-> 0, width |-> 1440, height |-> 900]
Monitor2 == [name |-> "external", x |-> 1440, y |-> 0, width |-> 1920, height |-> 1080]
MonitorLists == { << Monitor1 >>, << Monitor1, Monitor2 >>, << Monitor2, Monitor1 >> }

\* ------------------------------------------- window geometry: CSS values
\* A CSSValue: a number, "<n>px", "<n>vw", "<n>vh" or "calc(<n>vw - <m>px)";
\* "other" is any other string.
Num(n) == [u |-> "num", n |-> n, m |-> 0]
Px(n)  == [u |-> "px",  n |-> n, m |-> 0]
Vw(n)  == [u |-> "vw",  n |-> n, m |-> 0]
Vh(n)  == [u |-> "vh",  n |-> n, m |-> 0]
CalcVwMinusPx(n, m) == [u |-> "calc", n |-> n, m |-> m]

\* evaluateCalc for "calc(<n>vw - <m>px)": the tokens are "<n>vw", "-", "<m>px".
\* The percentages used divide the monitor sizes exactly.
EvaluateCalc(v, monitor) == (v.n * monitor.width) \div 100 - v.m

\* toPixels: Undefined stays Undefined, otherwise << pixels >>
ToPixels(value, monitor) ==
  IF value = Undefined THEN Undefined
  ELSE LET v == value[1] IN
       CASE v.u = "num"  -> << v.n >>
         [] v.u = "px"   -> << v.n >>
         [] v.u = "vw"   -> << (v.n * monitor.width) \div 100 >>
         [] v.u = "vh"   -> << (v.n * monitor.height) \div 100 >>
         [] v.u = "calc" -> << EvaluateCalc(v, monitor) >>
         [] OTHER        -> << 0 >>

\* ------------------------------------------- window geometry: useFluopanelInit
MonitorNames == { <<"primary">>, <<"built-in">>, <<"external">>, <<"gone">> }

Positions ==
  [monitor : {Undefined} \cup MonitorNames,
   left    : {Undefined, << Num(20) >>, << Px(800) >>},
   right   : {Undefined, << Num(20) >>, << Px(800) >>},
   width   : {Undefined, << Num(400) >>, << Vw(50) >>, << CalcVwMinusPx(100, 40) >>},
   top     : {Undefined, << Num(9) >>},
   bottom  : {Undefined, << Num(10) >>},
   height  : {Undefined, << Num(60) >>}]

\* A fallback on the last monitor of the list.
FindMonitorLast(name, ms) ==
  IF name = Undefined \/ name = << "" >> THEN ms[Len(ms)]
  ELSE IF \E i \in DOMAIN ms : ms[i].name = name[1]
       THEN ms[CHOOSE i \in DOMAIN ms :
                 /\ ms[i].name = name[1]
                 /\ \A j \in DOMAIN ms : ms[j].name = name[1] => i <= j]
       ELSE ms[Len(ms)]

\* findMonitor: !name gives the first monitor; otherwise the first monitor of
\* that name, and the first monitor when there is none.
FindMonitor(name, ms) ==
  IF name = Undefined \/ name = << "" >> THEN ms[1]
  ELSE IF \E i \in DOMAIN ms : ms[i].name = name[1]
       THEN ms[CHOOSE i \in DOMAIN ms :
                 /\ ms[i].name = name[1]
                 /\ \A j \in DOMAIN ms : ms[j].name = name[1] => i <= j]
       ELSE ms[1]

\* The arguments of set_window_geometry that applyWindowGeometry computes.
WindowGeometry(pos, monitor) ==
  LET top    == ToPixels(pos.top, monitor)
      left   == ToPixels(pos.left, monitor)
      right  == ToPixels(pos.right, monitor)
      bottom == ToPixels(pos.bottom, monitor)
      w0     == ToPixels(pos.width, monitor)
      h0     == ToPixels(pos.height, monitor)
      w1     == IF left # Undefined /\ right # Undefined /\ w0 = Undefined
                THEN << monitor.width - left[1] - right[1] >> ELSE w0
      h1     == IF top # Undefined /\ bottom # Undefined /\ h0 = Undefined
                THEN << monitor.height - top[1] - bottom[1] >> ELSE h0
      x      == IF left # Undefined THEN left[1]
                ELSE IF right # Undefined /\ w1 # Undefined
                     THEN monitor.width - right[1] - w1[1]
                     ELSE 0
      y      == IF top # Undefined THEN top[1]
                ELSE IF bottom # Undefined /\ h1 # Undefined
                     THEN monitor.height - bottom[1] - h1[1]
                     ELSE 0
  IN [x |-> monitor.x + x,
      y |-> monitor.y + y,
      width  |-> IF w1 # Undefined THEN w1[1] ELSE monitor.width,
      height |-> IF h1 # Undefined THEN h1[1] ELSE 32]

\* applyWindowGeometry once get_monitors has answered `ms`
ApplyWindowGeometry(ms) ==
  /\ monitors' = ms
  /\ IF Len(ms) = 0
     THEN /\ warned' = warned + 1
          /\ chosen' = Undefined
          /\ geometry' = geometry
     ELSE /\ warned' = warned
          /\ chosen' = FindMonitor(position.monitor, ms)
          /\ geometry' = WindowGeometry(position, chosen')

placeVars == << openOptions, params, panel, minMaxHeight, placementsLeft >>

\* onMounted: applyWindowGeometry, then the monitor-changed subscription
GeometryMounted ==
  /\ gpc = "setup"
  /\ ApplyWindowGeometry(monitors)
  /\ gpc' = "mounted"
  /\ UNCHANGED << popVars, regVars, winVars, sizeVars, otherVars, placeVars, position,
                  monitorChangesLeft >>

\* The displays change to `ms`; the monitor-changed listener applies again.
GeometryMonitorChanged(ms) ==
  /\ gpc = "mounted"
  /\ monitorChangesLeft > 0
  /\ ms # monitors
  /\ monitorChangesLeft' = monitorChangesLeft - 1
  /\ ApplyWindowGeometry(ms)
  /\ UNCHANGED << popVars, regVars, winVars, sizeVars, otherVars, placeVars, position, gpc >>

GeoInit ==
  /\ position \in Positions
  /\ monitors \in MonitorLists \cup { << >> }
  /\ geometry = Undefined
  /\ chosen = Undefined
  /\ warned = 0
  /\ gpc = "setup"
  /\ monitorChangesLeft = MaxMonitorChanges
  /\ openOptions = Undefined
  /\ params = Undefined
  /\ panel = Undefined
  /\ minMaxHeight = 1
  /\ placementsLeft = 0

\* ------------------------------------------- popover placement: openPopover
Anchors == [x : {100, 1400, 1430, 3300}, y : {40, 860}, width : {24}, height : {24}]
Aligns == {"start", "center", "end"}
OpenOptions == [anchor : Anchors, width : {340}, height : {420},
                align : {Undefined} \cup { << a >> : a \in Aligns },
                offsetY : {Undefined, <<8>>, <<16>>, <<40>>}]

\* A default that leaves the panel touching the anchor.
OpenPopoverParamsNoGap(options) ==
  [anchor |-> options.anchor, width |-> options.width, height |-> options.height,
   align   |-> IF options.align = Undefined THEN "center" ELSE options.align[1],
   offsetY |-> IF options.offsetY = Undefined THEN 0 ELSE options.offsetY[1]]

\* params of invoke('open_popover'): align ?? 'center', offsetY ?? 8
OpenPopoverParams(options) ==
  [anchor |-> options.anchor, width |-> options.width, height |-> options.height,
   align   |-> IF options.align = Undefined THEN "center" ELSE options.align[1],
   offsetY |-> IF options.offsetY = Undefined THEN 8 ELSE options.offsetY[1]]

\* ------------------------------------------- popover placement: native side
Contains(m, px, py) ==
  /\ m.x <= px /\ px < m.x + m.width
  /\ m.y <= py /\ py < m.y + m.height

MidX(a) == a.x + a.width \div 2
MidY(a) == a.y + a.height \div 2

OnSomeMonitor(a, ms) == \E i \in DOMAIN ms : Contains(ms[i], MidX(a), MidY(a))

AnchorMonitor(a, ms) ==
  ms[CHOOSE i \in DOMAIN ms : Contains(ms[i], MidX(a), MidY(a))]

HorizontalOrigin(q) ==
  CASE q.align = "start"  -> q.anchor.x
    [] q.align = "center" -> q.anchor.x + q.anchor.width \div 2 - q.width \div 2
    [] q.align = "end"    -> q.anchor.x + q.anchor.width - q.width

ClampTo(v, lo, hi) == IF v < lo THEN lo ELSE IF v > hi THEN hi ELSE v

\* The placement algorithm of open_popover, steps 2 to 6.
PlacePopover(q, ms, minimum) ==
  LET m  == AnchorMonitor(q.anchor, ms)
      vy == q.anchor.y + q.anchor.height + q.offsetY
      mh == m.y + m.height - vy
  IN [x |-> ClampTo(HorizontalOrigin(q), m.x, m.x + m.width - q.width),
      y |-> vy,
      width |-> q.width,
      height |-> q.height,
      max_height |-> IF mh < minimum THEN minimum ELSE mh]

\* openPopover(options) for an id that is not open, with the native placement
OpenPlaced(options) ==
  /\ placementsLeft > 0
  /\ OnSomeMonitor(options.anchor, monitors)
  /\ placementsLeft' = placementsLeft - 1
  /\ openOptions' = options
  /\ params' = OpenPopoverParams(options)
  /\ panel' = PlacePopover(params', monitors, minMaxHeight)
  /\ UNCHANGED << popVars, regVars, winVars, sizeVars, otherVars, position, monitors, geometry,
                  chosen, warned, gpc, monitorChangesLeft, minMaxHeight >>

\* close_popover: the panel is destroyed
ClosePlaced ==
  /\ panel # Undefined
  /\ panel' = Undefined
  /\ UNCHANGED << popVars, regVars, winVars, sizeVars, otherVars, position, monitors, geometry,
                  chosen, warned, gpc, monitorChangesLeft, openOptions, params,
                  minMaxHeight, placementsLeft >>

PlaceInit ==
  /\ openOptions = Undefined
  /\ params = Undefined
  /\ panel = Undefined
  /\ minMaxHeight \in {1, 100}
  /\ placementsLeft = MaxPlacements

\* ------------------------------------------- hover state manager
\* checkState that keeps a pending timer when the mouse is over an area.
TimerAfterCheckStateKeep(overTrigger, overPopup, left, delay) ==
  IF overTrigger \/ overPopup THEN left ELSE << delay >>

\* forceClose that does not look at isDestroyed.
ForceCloseInvokesAlways(destroyed) == TRUE

\* checkState: the pending timer after it; clearTimer when the mouse is over
\* either area, scheduleClose (clearTimer, then setTimeout) otherwise.
TimerAfterCheckState(overTrigger, overPopup, left, delay) ==
  IF overTrigger \/ overPopup THEN Undefined ELSE << delay >>

\* the setTimeout callback invokes onClose
TimerInvokes(destroyed, overTrigger, overPopup) ==
  ~destroyed /\ ~overTrigger /\ ~overPopup

\* forceClose invokes onClose
ForceCloseInvokes(destroyed) == ~destroyed

baseVars == << popVars, regVars, winVars, sizeVars, geoVars, storeVars, ctlVars >>

\* History: a call made after destroy().
Noted(name) == IF isDestroyed THEN afterDestroy \cup {name} ELSE afterDestroy

\* triggerEnter / triggerLeave / popupEnter / popupLeave
HoverCall(area, over) ==
  /\ hoverCallsLeft > 0
  /\ hoverCallsLeft' = hoverCallsLeft - 1
  /\ afterDestroy' = Noted(IF over THEN "enter" ELSE "leave")
  /\ IF isDestroyed
     THEN UNCHANGED << isOverTrigger, isOverPopup, closeTimer, timerLeft, quiet >>
     ELSE /\ isOverTrigger' = IF area = "trigger" THEN over ELSE isOverTrigger
          /\ isOverPopup' = IF area = "popup" THEN over ELSE isOverPopup
          /\ timerLeft' = TimerAfterCheckState(isOverTrigger', isOverPopup',
                                               timerLeft, LeaveDelay)
          /\ closeTimer' = (timerLeft' # Undefined)
          /\ quiet' = IF isOverTrigger' \/ isOverPopup' THEN 0 ELSE quiet
  /\ UNCHANGED << baseVars, isDestroyed, closes, pendingAtDestroy >>

ForceClose ==
  /\ hoverCallsLeft > 0
  /\ hoverCallsLeft' = hoverCallsLeft - 1
  /\ afterDestroy' = Noted("forceClose")
  /\ closeTimer' = FALSE
  /\ timerLeft' = Undefined
  /\ closes' = IF ForceCloseInvokes(isDestroyed) THEN closes + 1 ELSE closes
  /\ UNCHANGED << baseVars, isOverTrigger, isOverPopup, isDestroyed, quiet,
                  pendingAtDestroy >>

Destroy ==
  /\ hoverCallsLeft > 0
  /\ hoverCallsLeft' = hoverCallsLeft - 1
  /\ afterDestroy' = Noted("destroy")
  /\ pendingAtDestroy' = (pendingAtDestroy \/ (~isDestroyed /\ timerLeft # Undefined))
  /\ isDestroyed' = TRUE
  /\ closeTimer' = FALSE
  /\ timerLeft' = Undefined
  /\ UNCHANGED << baseVars, isOverTrigger, isOverPopup, closes, quiet >>

\* One unit of time passes.
Tick ==
  /\ timerLeft' = IF timerLeft # Undefined /\ timerLeft[1] > 0
                  THEN << timerLeft[1] - 1 >> ELSE timerLeft
  /\ quiet' = IF isOverTrigger \/ isOverPopup THEN 0
              ELSE IF quiet < LeaveDelay THEN quiet + 1 ELSE quiet
  /\ UNCHANGED << baseVars, isOverTrigger, isOverPopup, closeTimer, isDestroyed,
                  closes, hoverCallsLeft, pendingAtDestroy, afterDestroy >>

\* The timer callback runs, at its time or later; closeTimer keeps the id.
TimerFires ==
  /\ timerLeft = << 0 >>
  /\ timerLeft' = Undefined
  /\ afterDestroy' = Noted("timer")
  /\ closes' = IF TimerInvokes(isDestroyed, isOverTrigger, isOverPopup)
               THEN closes + 1 ELSE closes
  /\ UNCHANGED << baseVars, isOverTrigger, isOverPopup, closeTimer, isDestroyed,
                  hoverCallsLeft, quiet, pendingAtDestroy >>

HoverInit ==
  /\ isOverTrigger = FALSE
  /\ isOverPopup = FALSE
  /\ closeTimer = FALSE
  /\ timerLeft = Undefined
  /\ isDestroyed = FALSE
  /\ closes = 0
  /\ quiet = 0
  /\ pendingAtDestroy = FALSE
  /\ afterDestroy = {}

\* ------------------------------------------- shared store / battery provider
Callbacks == {"a", "b"}

\* subscribe calls setupListener: the shared store on the first subscriber
\* only, the battery provider on every onBatteryChange
CallsSetupListener(k, subs) == k = "battery" \/ Cardinality(subs) = 1

\* setupListener: `if (unlistenFn) return`, otherwise listen() is called
StartsListen(k, subs, fn) == CallsSetupListener(k, subs) /\ fn = Undefined

storeRest == << popVars, regVars, winVars, sizeVars, geoVars, hoverVars, ctlVars >>

\* subscribe(callback) / onBatteryChange(callback)
Subscribe(cb) ==
  /\ storeCallsLeft > 0
  /\ storeCallsLeft' = storeCallsLeft - 1
  /\ subscribers' = subscribers \cup {cb}
  /\ unsubscribers' = unsubscribers \cup {cb}
  /\ IF StartsListen(storeKind, subscribers', unlistenFn)
     THEN /\ pendingListens' = pendingListens \cup {nextListener}
          /\ nativeListeners' = nativeListeners \cup {nextListener}
          /\ nextListener' = nextListener + 1
     ELSE UNCHANGED << pendingListens, nativeListeners, nextListener >>
  /\ UNCHANGED << storeRest, storeKind, unlistenFn >>

\* listen() resolves: unlistenFn = await listen(...)
ListenResolves(l) ==
  /\ l \in pendingListens
  /\ pendingListens' = pendingListens \ {l}
  /\ unlistenFn' = << l >>
  /\ UNCHANGED << storeRest, storeKind, subscribers, nativeListeners, nextListener,
                  unsubscribers, storeCallsLeft >>

\* the function subscribe returned
Unsubscribe(cb) ==
  /\ storeCallsLeft > 0
  /\ cb \in unsubscribers
  /\ storeCallsLeft' = storeCallsLeft - 1
  /\ subscribers' = subscribers \ {cb}
  /\ IF subscribers' = {} /\ unlistenFn # Undefined
     THEN /\ nativeListeners' = nativeListeners \ {unlistenFn[1]}
          /\ unlistenFn' = Undefined
     ELSE UNCHANGED << nativeListeners, unlistenFn >>
  /\ UNCHANGED << storeRest, storeKind, pendingListens, nextListener, unsubscribers >>

StoreInit ==
  /\ subscribers = {}
  /\ unlistenFn = Undefined
  /\ pendingListens = {}
  /\ nativeListeners = {}
  /\ nextListener = 1
  /\ unsubscribers = {}

StoreIdle == StoreInit /\ storeKind = "sharedStore" /\ storeCallsLeft = 0

CtlIdle == ctlDestroyed = [c \in Clients |-> FALSE]

OtherIdle == HoverInit /\ hoverCallsLeft = 0 /\ StoreIdle /\ CtlIdle

\* ------------------------------------------------ specifications
InitPopover ==
  PopInit /\ RegInit /\ registryOpsLeft = 0 /\ WinIdle /\ SizeIdle /\ OtherIdle /\ GeoIdle
SpecPopover == InitPopover /\ [][NextPopover]_vars

InitExclusive ==
  PopSession /\ RegInit /\ registryOpsLeft = 0 /\ WinIdle /\ SizeIdle /\ OtherIdle /\ GeoIdle
SpecExclusive == InitExclusive /\ [][NextExclusive]_vars

InitController ==
  /\ CtlInit /\ RegInit /\ registryOpsLeft = 0 /\ WinIdle /\ SizeIdle /\ GeoIdle
  /\ HoverInit /\ hoverCallsLeft = 0 /\ StoreIdle /\ CtlIdle
SpecController == InitController /\ [][NextController]_vars

InitRegistry ==
  /\ PopIdle /\ RegInit /\ registryOpsLeft = MaxRegistryOps /\ WinIdle
  /\ SizeIdle /\ OtherIdle /\ GeoIdle
NextRegistry ==
  \/ \E id \in WinIds : CallRegister(id)
  \/ \E id \in WinIds : CallMark(id)
  \/ \E k \in Waiters : CallWait(k)
  \/ CallReset
SpecRegistry == InitRegistry /\ [][NextRegistry]_vars

InitWindows ==
  /\ PopIdle /\ RegInit /\ registryOpsLeft = 0
  /\ WinInit /\ topologyLeft = MaxTopologyChanges
  /\ SizeIdle /\ OtherIdle /\ GeoIdle
NextWindows ==
  \/ \E w \in WinIds : Setup(w)
  \/ \E w \in WinIds, ok \in BOOLEAN, shown \in BOOLEAN : Mount(w, ok, shown)
  \/ \E w \in WinIds, ok \in BOOLEAN : Show(w, ok)
  \/ \E w \in WinIds : CreateWindowCatch(w)
  \/ \E w \in WinIds : Mark(w)
  \/ \E w \in WinIds : ListenResume(w)
  \/ \E w \in WinIds : Unmount(w)
  \/ CoordMounted
  \/ MonitorChange
SpecWindows == InitWindows /\ [][NextWindows]_vars

InitAutoSize ==
  /\ PopIdle /\ RegInit /\ registryOpsLeft = 0 /\ WinIdle
  /\ SizeInit /\ GeoIdle /\ OtherIdle
NextAutoSize ==
  \/ PopoverMounted
  \/ \E ok \in BOOLEAN : AfterTick(ok)
  \/ \E m \in Measures, ok \in BOOLEAN : ObservedResize(m, ok)
  \/ PopoverUnmounted
SpecAutoSize == InitAutoSize /\ [][NextAutoSize]_vars

InitPlacement ==
  /\ PopIdle /\ RegInit /\ registryOpsLeft = 0 /\ WinIdle /\ SizeIdle /\ OtherIdle
  /\ position = Undefined /\ geometry = Undefined /\ chosen = Undefined
  /\ warned = 0 /\ gpc = "idle"
  /\ monitorChangesLeft = 0
  /\ monitors \in MonitorLists
  /\ PlaceInit
NextPlacement ==
  \/ \E options \in OpenOptions : OpenPlaced(options)
  \/ ClosePlaced
SpecPlacement == InitPlacement /\ [][NextPlacement]_vars

InitGeometry ==
  /\ PopIdle /\ RegInit /\ registryOpsLeft = 0 /\ WinIdle /\ SizeIdle /\ OtherIdle
  /\ GeoInit
NextGeometry ==
  \/ GeometryMounted
  \/ \E ms \in MonitorLists \cup { << >> } : GeometryMonitorChanged(ms)
SpecGeometry == InitGeometry /\ [][NextGeometry]_vars

InitHover ==
  /\ PopIdle /\ RegInit /\ registryOpsLeft = 0 /\ WinIdle /\ SizeIdle /\ GeoIdle
  /\ HoverInit /\ hoverCallsLeft = MaxHoverCalls /\ StoreIdle /\ CtlIdle
NextHover ==
  \/ \E area \in {"trigger", "popup"}, over \in BOOLEAN : HoverCall(area, over)
  \/ ForceClose
  \/ Destroy
  \/ Tick
  \/ TimerFires
SpecHover == InitHover /\ [][NextHover]_vars

InitStore ==
  /\ PopIdle /\ RegInit /\ registryOpsLeft = 0 /\ WinIdle /\ SizeIdle /\ GeoIdle
  /\ HoverInit /\ hoverCallsLeft = 0 /\ CtlIdle
  /\ StoreInit /\ storeKind \in {"sharedStore", "battery"}
  /\ storeCallsLeft = MaxStoreCalls
NextStore ==
  \/ \E cb \in Callbacks : Subscribe(cb)
  \/ \E l \in 1..MaxStoreCalls + 1 : ListenResolves(l)
  \/ \E cb \in Callbacks : Unsubscribe(cb)
SpecStore == InitStore /\ [][NextStore]_vars

\* ------------------------------------------------ popover: properties
IsOpenCall(p) == call[p].op \in {"toggle", "open"}
OpenRequestStep(p) == pc[p] \in {"loop", "regR"} /\ pc'[p] = "ret" /\ IsOpenCall(p)
CallsIdle == \A p \in Procs : pc[p] = "idle"
Quiescent == CallsIdle /\ \A c \in Clients, x \in Ids : inbox[c][x] = 0

\* C1: opening an id that is already open is a toggle. The open_popover request
\* that finds its id open removes that one panel, creates none and is answered
\* closed = true; usePopover.toggle then sets openPopoverId to null (isOpen is
\* false); and no call, with or without an exclusive group that contains its id,
\* closes its own id more than once or closes it and opens it again.
C1_ToggleClosesOnce ==
  [][\A p \in Procs :
       /\ selfClosed'[p] <= 1
       /\ ~(selfClosed'[p] >= 1 /\ created'[p])
       /\ (OpenRequestStep(p) /\ call[p].id \in nOpen)
            => /\ nOpen' = nOpen \ {call[p].id}
               /\ reply'[p]
               /\ ~created'[p]
       /\ (pc[p] = "ret" /\ pc'[p] = "idle" /\ call[p].op = "toggle" /\ reply[p])
            => openPopoverId'[clientOf[p]] = None
    ]_vars

C1_Witness ==
  \E p \in Procs :
    /\ pc[p] = "ret" /\ call[p].op = "toggle" /\ reply[p]
    /\ call[p].exclusive = ExclGroup
    /\ StartsWith(call[p].id, ExclGroup.s \o <<"-">>)
    /\ selfClosed[p] = 1 /\ call[p].id \notin nOpen

C3_AtMostOneOpen ==
  ((\A c \in Clients : kind[c] = "usePopover" /\ upExclusive[c] = ExclTrue)
     /\ CallsIdle)
    => Cardinality(nOpen) <= 1

\* C4: every panel opened with an onClose callback that has left the Open state
\* has had that callback invoked exactly once, once nothing is in flight.
C4_ExactlyOneNotification ==
  Quiescent => \A c \in Clients, x \in Ids : balance[c][x] = 0

\* C23 (as stated): once no call and no event is in flight, a usePopover
\* instance whose openPopoverId is set has that popover open natively.
C23_IsOpenMeansOpen ==
  Quiescent =>
    \A c \in Clients :
      (kind[c] = "usePopover" /\ openPopoverId[c] # None) => openPopoverId[c] \in nOpen

\* A registration of client c's popover-closed listener is in flight.
Registering(c) == \E p \in Procs : clientOf[p] = c /\ pc[p] = "regR"

\* C26 (as stated): a controller holds at most one native popover-closed
\* listener at any time, concurrent opens with onClose included, and after
\* destroy() none remains once the registrations in flight have resolved.
C26_CloseListenerBookkeeping ==
  \A c \in Clients :
    /\ ctlListeners[c] <= 1
    /\ ctlDestroyed[c] /\ ~Registering(c) => ctlListeners[c] = 0

\* ------------------------------------------------ exclusive groups: properties
\* id begins with P followed by '-'
BeginsWithGroup(x, P) ==
  /\ Len(x) > Len(P)
  /\ \A i \in 1..Len(P) : x[i] = P[i]
  /\ x[Len(P) + 1] = "-"

GroupCall(p) == IsOpenCall(p) /\ call[p].exclusive = ExclGroup
CallStep(p) == pc[p] \in {"loop", "regR"} /\ (pc'[p] # pc[p] \/ toClose'[p] # toClose[p])

\* C11: an open with exclusive = P reads as its closing list exactly the open
\* ids other than its own that begin with "P-"; it issues its open request only
\* when all of them have been closed by it; and no step of the call changes a
\* popover whose id does not begin with "P-" (other than the id it opens): it
\* stays open or closed as it was, no closed event is emitted for it and its
\* callback registration is untouched.
C11_PrefixGroupFrame ==
  [][\A p \in Procs :
       /\ (pc[p] \in {"idle", "setupR"} /\ pc'[p] = "loop"
              /\ call'[p].exclusive = ExclGroup)
            => /\ toClose'[p] = { x \in nOpen : x # call'[p].id
                                    /\ BeginsWithGroup(x, ExclGroup.s) }
               /\ nOpen' = nOpen
       /\ (GroupCall(p) /\ OpenRequestStep(p)) => toClose[p] = {}
       /\ (GroupCall(p) /\ CallStep(p))
            => \A x \in Ids \ {call[p].id} :
                 ~BeginsWithGroup(x, ExclGroup.s)
                   => /\ (x \in nOpen' <=> x \in nOpen)
                      /\ \A c \in Clients :
                           /\ inbox'[c][x] = inbox[c][x]
                           /\ (x \in closeCallbacks'[c] <=> x \in closeCallbacks[c])
    ]_vars

C11_Witness ==
  \E p \in Procs :
    /\ pc[p] = "ret" /\ GroupCall(p) /\ created[p]
    /\ closedByCall[p] # {}
    /\ <<"g", "x">> \in nOpen
    /\ \A x \in nOpen : x # call[p].id => ~BeginsWithGroup(x, ExclGroup.s)

ExclusiveCall(p) == IsOpenCall(p) /\ Truthy(call[p].exclusive)
LoopCloseStep(p) == IsOpenCall(p) /\ pc[p] = "loop" /\ toClose'[p] # toClose[p]

CloseStep(p) == pc[p] = "idle" /\ pc'[p] = "ret" /\ call'[p].op = "close"

\* C13: controller.close(id) always completes and leaves id not open and
\* without a close callback; it emits one closed event for id per listener when
\* id was open and none otherwise; on a state where id is not open and has no
\* callback (the state a close(id) leaves) it changes nothing of the popover
\* state, so a second close(id) adds no notification and no change.
C13_CloseIdempotent ==
  [][\A p \in Procs :
       CloseStep(p) =>
         LET id == call'[p].id
             c  == clientOf[p] IN
         /\ nOpen' = nOpen \ {id}
         /\ id \notin closeCallbacks'[c]
         /\ \A d \in Clients, y \in Ids :
              inbox'[d][y] = inbox[d][y]
                + (IF y = id /\ id \in nOpen /\ HasListener(d) THEN 1 ELSE 0)
         /\ (id \notin nOpen /\ id \notin closeCallbacks[c])
              => UNCHANGED << natVars, closeCallbacks, lstVars, openPopoverId >>
    ]_vars

\* Two close calls for the same id have both completed; the id is closed and
\* the listening client holds a single closed event for it.
C13_Witness ==
  /\ \A p \in Procs : pc[p] = "ret" /\ call[p].op = "close"
  /\ call[1].id = call[2].id
  /\ nOpen = Ids \ {call[1].id}
  /\ \A c \in Clients, y \in Ids :
       inbox[c][y] = (IF y = call[1].id /\ HasListener(c) THEN 1 ELSE 0)
  /\ \E c \in Clients : HasListener(c)

\* ------------------------------------------------ popover child: properties
\* C14 (as stated): every set_window_size request of a popover child loaded
\* with max_height = M has a height of at most M.
C14_SentHeightWithinMax ==
  \A i \in DOMAIN sent :
    search.max_height # Undefined => sent[i].height <= search.max_height[1]

\* C15 (as stated): the maximum height the rendering child hands to useAutoSize
\* and puts on its container is the max_height of its URL.
C15_ChildUsesUrlMaxHeight ==
  (ShouldRenderContent /\ search.max_height # Undefined)
    => /\ PopoverOptions.maxHeight = search.max_height
       /\ ContainerMaxHeight = search.max_height

\* ------------------------------------------------ popover placement: properties
Bottom(m) == m.y + m.height

Given(v) == v # Undefined
Pixels(v) == ToPixels(v, chosen)[1]
LocalX == geometry.x - chosen.x
LocalY == geometry.y - chosen.y

\* C17 (as stated): on each axis, left and right give x_local = left and
\* w = monitor.w - left - right; left and width give x_local = left, w = width;
\* right and width give x_local = monitor.w - right - width, w = width; left
\* alone gives x_local = left, w = monitor.w - left; likewise with top, bottom
\* and height.
C17_AxisSolving ==
  chosen # Undefined =>
    LET p == position IN
    /\ (Given(p.left) /\ Given(p.right) /\ ~Given(p.width))
         => /\ LocalX = Pixels(p.left)
            /\ geometry.width = chosen.width - Pixels(p.left) - Pixels(p.right)
    /\ (Given(p.left) /\ Given(p.width) /\ ~Given(p.right))
         => LocalX = Pixels(p.left) /\ geometry.width = Pixels(p.width)
    /\ (Given(p.right) /\ Given(p.width) /\ ~Given(p.left))
         => /\ LocalX = chosen.width - Pixels(p.right) - Pixels(p.width)
            /\ geometry.width = Pixels(p.width)
    /\ (Given(p.left) /\ ~Given(p.right) /\ ~Given(p.width))
         => /\ LocalX = Pixels(p.left)
            /\ geometry.width = chosen.width - Pixels(p.left)
    /\ (Given(p.top) /\ Given(p.bottom) /\ ~Given(p.height))
         => /\ LocalY = Pixels(p.top)
            /\ geometry.height = chosen.height - Pixels(p.top) - Pixels(p.bottom)
    /\ (Given(p.top) /\ Given(p.height) /\ ~Given(p.bottom))
         => LocalY = Pixels(p.top) /\ geometry.height = Pixels(p.height)
    /\ (Given(p.bottom) /\ Given(p.height) /\ ~Given(p.top))
         => /\ LocalY = chosen.height - Pixels(p.bottom) - Pixels(p.height)
            /\ geometry.height = Pixels(p.height)
    /\ (Given(p.top) /\ ~Given(p.bottom) /\ ~Given(p.height))
         => /\ LocalY = Pixels(p.top)
            /\ geometry.height = chosen.height - Pixels(p.top)

\* The primary monitor is the first of the list get_monitors returns.
Primary == monitors[1]

\* C18: whenever applyWindowGeometry has found monitors, the monitor it solves
\* against is the primary when the descriptor names none or names "primary",
\* otherwise the first monitor of the descriptor's name, and the primary when no
\* monitor has that name; the request it sends is the descriptor solved
\* against that monitor.
C18_MonitorSelection ==
  chosen # Undefined =>
    LET name  == position.monitor
        named == { i \in DOMAIN monitors : name # Undefined /\ monitors[i].name = name[1] }
    IN /\ monitors # << >>
       /\ (name = Undefined \/ name = << "primary" >>) => chosen = Primary
       /\ named = {} => chosen = Primary
       /\ named # {} => \E i \in named : /\ chosen = monitors[i]
                                         /\ \A j \in named : i <= j
       /\ geometry = WindowGeometry(position, chosen)

\* A window declared on "external" after that monitor was removed.
C18_Witness ==
  /\ gpc = "mounted" /\ monitorChangesLeft < MaxMonitorChanges
  /\ position.monitor = << "external" >>
  /\ Given(position.left) /\ Given(position.right) /\ ~Given(position.width)
  /\ monitors = << Monitor1 >>
  /\ chosen = Monitor1
  /\ position.left = << Num(20) >> /\ position.right = << Num(20) >>
  /\ geometry.x = 20 /\ geometry.width = 1400

\* C19 (as stated): a descriptor with only width and only height is centred on
\* the chosen monitor.
C19_WidthHeightOnlyCentred ==
  (/\ chosen # Undefined
   /\ Given(position.width) /\ ~Given(position.left) /\ ~Given(position.right)
   /\ Given(position.height) /\ ~Given(position.top) /\ ~Given(position.bottom))
    => /\ 2 * LocalX = chosen.width - geometry.width
       /\ 2 * LocalY = chosen.height - geometry.height

\* C20 (as stated): every rectangle sent has a strictly positive width and
\* height and its origin within the chosen monitor.
C20_PositiveSizeOriginInside ==
  chosen # Undefined =>
    /\ geometry.width > 0 /\ geometry.height > 0
    /\ 0 <= LocalX /\ LocalX < chosen.width
    /\ 0 <= LocalY /\ LocalY < chosen.height

InsolubleAxis(p) ==
  \/ ~Given(p.left) /\ ~Given(p.right) /\ ~Given(p.width)
  \/ ~Given(p.top) /\ ~Given(p.bottom) /\ ~Given(p.height)

\* C21 (as stated): for a descriptor with an insoluble axis no
\* set_window_geometry request is ever sent.
C21_InsolubleAxisNotApplied ==
  InsolubleAxis(position) => geometry = Undefined

\* ------------------------------------------------ shared store: properties
\* C25 (as stated): once every listen() has resolved, no native listener is
\* registered when the subscriber set is empty and exactly one when it is not.
C25_ListenerMatchesSubscribers ==
  pendingListens = {} =>
    /\ subscribers = {} => nativeListeners = {}
    /\ subscribers # {} => Cardinality(nativeListeners) = 1

\* ------------------------------------------------ hover state manager: properties
TimerClose == timerLeft = << 0 >> /\ timerLeft' = Undefined /\ closes' = closes + 1
EnterStep ==
  /\ ~isDestroyed
  /\ \/ ~isOverTrigger /\ isOverTrigger'
     \/ ~isOverPopup /\ isOverPopup'

\* C22: the timer invokes onClose only when the mouse has been over neither
\* the trigger nor the popup for the whole leaveDelay before; an enter of
\* either area leaves no close pending, and while the mouse is over an area no
\* close is pending.
C22_CloseOnlyAfterQuietDelay ==
  [][/\ TimerClose => /\ quiet = LeaveDelay
                      /\ ~isOverTrigger /\ ~isOverPopup
     /\ EnterStep => timerLeft' = Undefined
     /\ (isOverTrigger' \/ isOverPopup') => timerLeft' = Undefined
    ]_vars

\* The mouse left, came back before the delay had elapsed, left again, and the
\* timer closed the popup a full delay after the second leave.
C22_Witness ==
  /\ closes = 1 /\ ~isDestroyed
  /\ hoverCallsLeft = MaxHoverCalls - 3
  /\ ~isOverTrigger /\ ~isOverPopup
  /\ closeTimer /\ timerLeft = Undefined
  /\ quiet = LeaveDelay

\* C29: once isDestroyed is set, no step invokes onClose.
C29_NoCloseAfterDestroy ==
  [][isDestroyed => closes' = closes /\ isDestroyed' /\ timerLeft' = Undefined]_vars

\* destroy() found a pending timer, and enter, leave and forceClose were
\* called afterwards.
C29_Witness ==
  /\ isDestroyed /\ pendingAtDestroy
  /\ {"enter", "leave", "forceClose"} \subseteq afterDestroy
  /\ closes = 0

\* ------------------------------------------------ registry and page load: properties
\* C5: no caller of waitForAllWindows is left waiting while the pending set is
\* empty, and no caller is resolved while an id is pending at that moment.
C5_WaitCompletesWhenEmpty ==
  \A k \in Waiters : wstate[k] = "waiting" => pendingWindows # {}

HideStep == mainVisible /\ ~mainVisible'

\* C6: the step that issues hide_window for 'main' is taken only by a coordinator
\* with autoHide, with an empty pending set, and with every window declared so
\* far (its <Window> setup has run) completed and back from createWindow.
C6_HideAfterAllCompleted ==
  [][HideStep =>
       /\ IsCoordinator(url) /\ autoHide
       /\ pendingWindows' = {}
       /\ \A w \in WinIds :
            wpc[w] # "init"
              => w \in completedWindows' /\ wpc'[w] \in {"listenR", "mounted"}
    ]_vars

C6_Witness ==
  /\ ~mainVisible /\ cpc = "done" /\ wstate[Coordinator] = "resolved"
  /\ completedWindows = WinIds
  /\ \A w \in WinIds : createdHere[w] /\ nwin[w] = "visible"

\* C7: a load whose URL carries window=<id> or popover=<id> never acts as the
\* coordinator: it registers no pending window, issues no create, reposition or
\* close request for an inline window, and never hides 'main'.
C7_ChildNeverCoordinates ==
  (TruthyParam(url.window) \/ IsPopover(url))
    => (pendingWindows = {} /\ ~coordRequested /\ mainVisible)

\* C8: once createInlineWindow has returned or thrown for an id, the native
\* window of that id is visible or there is none (no window that was created
\* and never shown).
C8_CreateIsAtomic ==
  \A w \in WinIds :
    wpc[w] \notin {"init", "setup", "showReq"} => nwin[w] \in {"visible", "absent"}

DupCreateStep(w) == wpc[w] = "setup" /\ wpc'[w] = "catch" /\ nwin[w] # "absent"
DupCatchStep(w) == wpc[w] = "catch" /\ wpc'[w] # "catch" /\ dupRectBefore[w] # "none"

C10_NoTopologyChangeMissed ==
  \A w \in WinIds : ~missed[w]

\* C24 (as stated): once a <Window> of the coordinator is unmounted and its
\* onMounted has run to its end, the native window of its id does not exist and
\* no monitor-changed listener of the component is registered, so that no
\* reposition request is issued for it any more.
C24_UnmountedWindowGone ==
  \A w \in WinIds :
    (IsCoordinator(url) /\ unmounted[w] /\ wpc[w] \in {"mounted", "failed"})
      => nwin[w] = "absent" /\ listening[w] = 0


\* C27 (as stated): an id is in the completed set only if a native window for
\* that id exists, and an id whose creation failed stays pending and is never
\* reported completed.
C27_CompletedMeansRealized ==
  \A w \in WinIds :
    /\ w \in completedWindows => nwin[w] # "absent"
    /\ wpc[w] = "failed" => w \in pendingWindows /\ w \notin completedWindows

\* C28 (as stated): no id is in the pending set and in the completed set at
\* the same time.
C28_PendingCompletedDisjoint == pendingWindows \cap completedWindows = {}

\* C30 (as stated): the recorded (width, height) is the last size that was
\* successfully applied to the native window; nothing is recorded while no
\* request has succeeded.
C30_RecordedIsApplied ==
  IF applied = Undefined
  THEN width = 0 /\ height = 0
  ELSE width = applied[1].width /\ height = applied[1].height

====
